---- MODULE Spec2Model ----
(***************************************************************************)
(* Model of server/text_generation_server/layers/mlp.py:                   *)
(*   MLPSpeculatorLayerNorm, MLPSpeculatorModel, MLPSpeculatorHead.        *)
(*                                                                         *)
(* A tensor is a record [shape, data]: shape is the sequence of the sizes  *)
(* of its index axes, data its elements in row-major order.  The trailing  *)
(* feature axis (hidden / inner / vocabulary) is carried inside each       *)
(* element: a vector is one element.  Every element records in `src` the   *)
(* batch row of the forward call's input it was computed from.             *)
(***************************************************************************)
EXTENDS Integers, Sequences, FiniteSets, TLC

(* ------------------------------ bounds -------------------------------- *)
MaxN == 4
MaxK == 3
MaxBatch == 2
MaxVal == 1
VocabSize == 3
MaxCallers == 2
MaxPaths == 2

(* ------------------------- program constants -------------------------- *)
Threshold == 128

None == "None"
NoObj == [none |-> TRUE]
Modulus == MaxVal + 1
Vals == 0..MaxVal

(* ------------------------- sequence helpers --------------------------- *)
RECURSIVE Prod(_)
Prod(s) == IF s = <<>> THEN 1 ELSE Head(s) * Prod(Tail(s))

RECURSIVE SeqsUpTo(_, _)
SeqsUpTo(S, n) ==
    IF n = 0 THEN {<<>>}
    ELSE LET shorter == SeqsUpTo(S, n - 1)
         IN  shorter \cup {Append(s, x) : s \in {t \in shorter : Len(t) = n - 1}, x \in S}

Ones(n) == [j \in 1..n |-> 1]

(* ------------------------------ tensors ------------------------------- *)
Tensor(shape, data) == [shape |-> shape, data |-> data]

Dim(t) == Len(t.shape)

\* multi-index (0-based, one entry per axis) of flat position p (0-based)
RECURSIVE Stride(_, _)
Stride(shape, ax) ==
    IF ax >= Len(shape) THEN 1 ELSE shape[ax + 1] * Stride(shape, ax + 1)

Coord(shape, p, ax) == (p \div Stride(shape, ax)) % shape[ax]

\* torch.Tensor.unsqueeze(dim): a new axis of size 1 at position dim
Unsqueeze(t, dim) ==
    Tensor([a \in 1..(Dim(t) + 1) |->
                IF a <= dim THEN t.shape[a]
                ELSE IF a = dim + 1 THEN 1 ELSE t.shape[a - 1]],
           t.data)

\* torch.Tensor.expand(sizes): -1 keeps an axis, an axis of size 1 is repeated
Expand(t, sizes) ==
    LET shape == [a \in 1..Dim(t) |-> IF sizes[a] = -1 THEN t.shape[a] ELSE sizes[a]]
        from(p) == LET idx(a) == IF t.shape[a] = 1 THEN 0 ELSE Coord(shape, p, a)
                       RECURSIVE Flat(_)
                       Flat(a) == IF a = 0 THEN 0
                                  ELSE Flat(a - 1) * t.shape[a] + idx(a)
                   IN  Flat(Dim(t))
    IN  Tensor(shape, [q \in 1..Prod(shape) |-> t.data[from(q - 1) + 1]])

\* torch.Tensor.reshape / view with a leading -1: the elements keep their
\* row-major order, the leading axis takes what the other axes leave
Reshape(t, rest) ==
    Tensor(<<Len(t.data) \div Prod(rest)>> \o rest, t.data)

\* broadcasting of two shapes, aligned at the trailing axis
BroadcastOk(s1, s2) ==
    \A j \in 1..(IF Len(s1) < Len(s2) THEN Len(s1) ELSE Len(s2)) :
        LET a == s1[Len(s1) - j + 1]
            b == s2[Len(s2) - j + 1]
        IN  a = b \/ a = 1 \/ b = 1

BroadcastShape(s1, s2) ==
    LET n == IF Len(s1) < Len(s2) THEN Len(s2) ELSE Len(s1)
        at(s, a) == IF a <= n - Len(s) THEN 1 ELSE s[a - (n - Len(s))]
    IN  [a \in 1..n |-> IF at(s1, a) = 1 THEN at(s2, a) ELSE at(s1, a)]

\* flat position in a tensor of shape s of the element that position p of the
\* broadcast shape `shape` reads
BroadcastFrom(s, shape, p) ==
    LET off == Len(shape) - Len(s)
        RECURSIVE Flat(_)
        Flat(a) == IF a = 0 THEN 0
                   ELSE Flat(a - 1) * s[a]
                        + (IF s[a] = 1 THEN 0 ELSE Coord(shape, p, a + off))
    IN  Flat(Len(s))

\* elementwise binary operation with broadcasting
Map2(Op(_, _), t1, t2) ==
    LET shape == BroadcastShape(t1.shape, t2.shape)
    IN  Tensor(shape,
               [q \in 1..Prod(shape) |->
                    Op(t1.data[BroadcastFrom(t1.shape, shape, q - 1) + 1],
                       t2.data[BroadcastFrom(t2.shape, shape, q - 1) + 1])])

Map1(Op(_), t) == Tensor(t.shape, [q \in 1..Len(t.data) |-> Op(t.data[q])])

\* indexed assignment dst[...] = src (torch setitem): the leading axes of size
\* 1 of src are dropped, then src must expand to the shape of the slot
RECURSIVE StripOnes(_)
StripOnes(s) == IF s # <<>> /\ Head(s) = 1 THEN StripOnes(Tail(s)) ELSE s

SetItemOk(slot, src) ==
    \/ slot = src.shape
    \/ LET s == StripOnes(src.shape)
       IN  /\ Len(s) <= Len(slot)
           /\ \A j \in 1..Len(s) :
                 s[Len(s) - j + 1] = slot[Len(slot) - j + 1] \/ s[Len(s) - j + 1] = 1

SetItemValue(slot, src) ==
    LET s == IF slot = src.shape THEN src.shape ELSE StripOnes(src.shape)
    IN  [q \in 1..Prod(slot) |-> src.data[BroadcastFrom(s, slot, q - 1) + 1]]

(* ---------------------------- state ----------------------------------- *)
VARIABLES
    routing,                \* weights.routing: parameter name -> file, or None
    loadpc,                 \* position of MLPSpeculatorHead.load
    todo,                   \* config.speculator["model_paths"] not scanned yet
    scanned,                \* the files scanned so far, in order
    content,                \* the keys of each speculator file, in file order
    config,                 \* the config handed to load / to the constructor
    objs,                   \* the layer objects constructed so far
    model,                  \* the MLPSpeculatorModel, or None
    top_k_tokens_per_head,  \* model.top_k_tokens_per_head
    wrapper,                \* the MLPSpeculatorHead, or None
    error,                  \* the exception load ended with, or None
    frames                  \* one forward call per caller

vars == <<routing, loadpc, todo, scanned, content, config, objs, model,
          top_k_tokens_per_head, wrapper, error, frames>>

loadVars == <<routing, loadpc, todo, scanned, content, config, objs, model, wrapper, error>>

Callers == 1..MaxCallers

(* ------------------ parameter files and their routing ----------------- *)
Names == {"w1", "w2"}
BaseFile == "base/model.safetensors"
FNames == {"a.safetensors", "./a.safetensors", "b.safetensors"}

\* str(Path(speculator_path) / fname): pathlib drops a "." component
PathJoin(fname) ==
    CASE fname = "a.safetensors"   -> "spec/a.safetensors"
      [] fname = "./a.safetensors" -> "spec/a.safetensors"
      [] fname = "b.safetensors"   -> "spec/b.safetensors"

SpecFiles == {PathJoin(f) : f \in FNames}

\* the key lists a file can hold: its names, each once, in any order
KeyLists == {s \in SeqsUpTo(Names, Cardinality(Names)) :
                \A i, j \in 1..Len(s) : i # j => s[i] # s[j]}

\* a check that rejects every key that is routed already
CollidesAny(r, k, filename) == r[k] # None

\* line 214: the key is routed already, to another file
Collides(r, k, filename) == r[k] # None /\ r[k] # filename

\* lines 213-218: the keys of one file, in order; stops at the first collision
RECURSIVE ScanKeys(_, _, _)
ScanKeys(r, keys, filename) ==
    IF keys = <<>> THEN [routing |-> r, error |-> None]
    ELSE IF Collides(r, Head(keys), filename)
         THEN [routing |-> r, error |-> "RuntimeError"]
         ELSE ScanKeys([r EXCEPT ![Head(keys)] = filename], Tail(keys), filename)

(* --------------------------- construction ----------------------------- *)
\* a layer object loaded from the tensors under "<prefix>.<kind>.<idx>"
Layer(kind, idx, affine) == [kind |-> kind, idx |-> idx, affine |-> affine]

\* [x] * n : the same object in every slot
Repeat(id, n) == [j \in 1..n |-> id]

\* lines 64-65, 81-82, 84-90: one object, shared by all heads
TiedList(id, n) == Repeat(id, n)

\* a tied list that reuses the first projection for every head
TiedProjFirst(first, tied, n) == Repeat(first, n)

\* lines 79-80: [proj_first] + [proj_tied] * (n_predict - 1)
TiedProj(first, tied, n) == <<first>> \o Repeat(tied, n - 1)

\* lines 92-123: a list comprehension, one new object per head
UntiedList(base, n) == [j \in 1..n |-> base + j]

\* a constructor that takes the top-k list of the configuration
TopKFromConfig(cfg) == IF cfg.has_top_k THEN cfg.top_k ELSE Ones(cfg.n_predict)

\* line 135: the top-k list set at construction
DefaultTopK(cfg) == Ones(cfg.n_predict)

\* lines 129-130, as residues: two scalars that depend on n_predict alone
StateWeight(n) == n % Modulus
EmbWeight(n) == (n + 1) % Modulus

\* MLPSpeculatorModel.__init__: the heap after it, and the object or the error
NewModel(cfg, heap) ==
    LET n == cfg.n_predict
        h0 == Len(heap)
        tiedHeap == heap \o << Layer("emb", 0, FALSE), Layer("proj", 0, FALSE),
                               Layer("proj", 1, FALSE), Layer("head", 0, FALSE),
                               Layer("ln", 0, TRUE) >>
        untiedHeap == heap \o [j \in 1..n |-> Layer("emb", j - 1, FALSE)]
                           \o [j \in 1..n |-> Layer("proj", j - 1, FALSE)]
                           \o [j \in 1..n |-> Layer("head", j - 1, FALSE)]
                           \o [j \in 1..n |-> Layer("ln", j - 1, TRUE)]
        built == IF cfg.tie_weights THEN tiedHeap ELSE untiedHeap
        emb  == IF cfg.tie_weights THEN TiedList(h0 + 1, n) ELSE UntiedList(h0, n)
        proj == IF cfg.tie_weights THEN TiedProj(h0 + 2, h0 + 3, n)
                                   ELSE UntiedList(h0 + n, n)
        head == IF cfg.tie_weights THEN TiedList(h0 + 4, n) ELSE UntiedList(h0 + 2 * n, n)
        ln   == IF cfg.tie_weights THEN TiedList(h0 + 5, n) ELSE UntiedList(h0 + 3 * n, n)
    IN  IF cfg.scale_input
        THEN \* line 126: MLPSpeculatorLayerNorm(self.hidden_size,
             \* elementwise_scale_and_shift=False) leaves out the required
             \* arguments config and weights of lines 30-37
             [error |-> "TypeError", heap |-> built, model |-> NoObj, top_k |-> <<>>]
        ELSE [error |-> None, heap |-> built,
              model |-> [n_predict |-> n, tie_weights |-> cfg.tie_weights,
                         scale_input |-> cfg.scale_input,
                         emb |-> emb, proj |-> proj, head |-> head, ln |-> ln,
                         ln0 |-> 0,
                         state_weight |-> StateWeight(n), emb_weight |-> EmbWeight(n),
                         vsize |-> VocabSize],
              top_k |-> DefaultTopK(cfg)]

(* ------------------- the layers' arithmetic --------------------------- *)
(* Reals are modelled by residues: a vector is one residue `val`, a layer  *)
(* computes on it with the small integers its tensors stand for.           *)
Weight(heap, o) == heap[o].idx + 1
Bias(heap, o) == heap[o].idx

\* TensorParallelEmbedding.forward: the table row of the token
Embedding(heap, o, e) == [val |-> (Weight(heap, o) + e.tok) % Modulus, src |-> e.src]

\* FastLinear.forward with bias=False, hidden -> inner or inner -> inner
Linear(heap, o, x) == [val |-> (Weight(heap, o) * x.val) % Modulus, src |-> x.src]

\* FastLinear / TensorParallelHead onto the vocabulary: one logit per token
Logits(heap, o, x) ==
    [logit |-> [v \in 1..VocabSize |-> (x.val + Weight(heap, o) + (v - 1)) % VocabSize],
     src |-> x.src]

\* MLPSpeculatorLayerNorm.forward on a one-component vector
LayerNormForward(heap, o, x) ==
    LET xf == IF x.val = 0 THEN 0 ELSE 1
    IN  [val |-> IF heap[o].affine
                 THEN (Weight(heap, o) * xf + Bias(heap, o)) % Modulus
                 ELSE xf,
         src |-> x.src]

\* nn.GELU
Gelu(x) == [val |-> ((x.val * (x.val + 1)) \div 2) % Modulus, src |-> x.src]

Scale(w, x) == [val |-> (w * x.val) % Modulus, src |-> x.src]

\* the state keeps its own src: z is added to it
Add(x, z) == [val |-> (x.val + z.val) % Modulus, src |-> x.src]

RECURSIVE Pow2(_)
Pow2(n) == IF n = 0 THEN 1 ELSE 2 * Pow2(n - 1)

RECURSIVE SumPow2(_)
SumPow2(l) == IF l = <<>> THEN 0 ELSE Pow2(Head(l)) + SumPow2(Tail(l))

\* F.log_softmax(dim=-1), base 2: each logit with the sum it is normalised by
LogSoftmax(x) ==
    [logp |-> [v \in 1..Len(x.logit) |-> [logit |-> x.logit[v], sum |-> SumPow2(x.logit)]],
     src |-> x.src]

\* Tensor.exp(): the probability as a fraction
Exp(x) ==
    [p |-> [v \in 1..Len(x.logp) |-> [num |-> Pow2(x.logp[v].logit), den |-> x.logp[v].sum]],
     src |-> x.src]

\* the token of the largest entry among `among` (the first one on a tie)
Best(score, among) ==
    CHOOSE v \in among :
        \A u \in among : score[u] < score[v] \/ (score[u] = score[v] /\ v <= u)

\* Tensor.topk(k, dim=-1).indices of one row: the k best tokens, best first
RECURSIVE TopKRow(_, _, _)
TopKRow(score, among, k) ==
    IF k = 0 THEN <<>>
    ELSE LET v == Best(score, among)
         IN  <<v - 1>> \o TopKRow(score, among \ {v}, k - 1)

\* probs.topk(k, dim=-1): a new trailing axis of size k
TopK(probs, k) ==
    Tensor(Append(probs.shape, k),
           [q \in 1..(Len(probs.data) * k) |->
               LET x == probs.data[((q - 1) \div k) + 1]
                   score == [v \in 1..Len(x.logp) |-> x.logp[v].logit]
               IN  [tok |-> TopKRow(score, 1..Len(score), k)[((q - 1) % k) + 1],
                    src |-> x.src]])

\* logits.argmax(dim=-1)
ArgMax(x) == [tok |-> Best(x.logit, 1..Len(x.logit)) - 1, src |-> x.src]

(* --------------------------- forward calls ---------------------------- *)
Empty == [empty |-> TRUE]

IdleFrame ==
    [pc |-> "idle", input |-> NoObj, logits |-> NoObj,
     hidden_states |-> NoObj, input_ids |-> NoObj, spec_calls |-> 0,
     top_k |-> <<>>, state |-> NoObj, ind |-> NoObj, all_probs |-> NoObj,
     b |-> 0, i |-> 0, evaluated |-> <<>>, written |-> <<>>, counts |-> <<>>,
     spec_result |-> NoObj, result |-> NoObj]

Raise(fr, exc) ==
    [fr EXCEPT !.pc = "done", !.spec_result = [kind |-> "raise", error |-> exc],
               !.result = [kind |-> "raise", error |-> exc]]

\* a bypass that already skips a batch of exactly the threshold
BypassAtThreshold(rows) == rows >= Threshold

\* line 195
Bypass(rows) == rows > Threshold

\* MLPSpeculatorHead.forward, lines 193-199, up to the call of the speculator
HeadForwardFrame(heap, w, input) ==
    LET logits == Map1(LAMBDA x : Logits(heap, w.lm_head, x), input)
    IN  IF Bypass(input.shape[1])
        THEN [IdleFrame EXCEPT !.pc = "done", !.input = input, !.logits = logits,
                  !.result = [kind |-> "return", logits |-> logits,
                              speculative_logits |-> NoObj]]
        ELSE [IdleFrame EXCEPT !.pc = "call", !.input = input, !.logits = logits,
                  !.hidden_states = input,
                  !.input_ids = Map1(ArgMax, logits),
                  !.spec_calls = 1]

\* a length check that lets a longer list through
TopKLengthAtLeast(m, top_k) == Len(top_k) >= m.n_predict

\* lines 156-158
TopKLengthOk(m, top_k) == Len(top_k) = m.n_predict

\* MLPSpeculatorModel.forward, lines 142-158
SpecEnterFrame(m, heap, top_k, fr) ==
    LET state0 == fr.hidden_states
        state == IF m.scale_input
                 THEN Map1(LAMBDA x : LayerNormForward(heap, m.ln0, x), state0)
                 ELSE state0
        b == state.shape[1]
        entered == [fr EXCEPT !.top_k = top_k, !.state = state, !.b = b,
                        !.ind = Unsqueeze(fr.input_ids, 0),
                        !.all_probs = Tensor(<<b, m.n_predict>>,
                                             [q \in 1..(b * m.n_predict) |-> Empty]),
                        !.i = 0, !.pc = "loop"]
    IN  IF TopKLengthOk(m, top_k) THEN entered ELSE Raise(entered, "AssertionError")

\* a write that lands in the slot of the next head
WriteSlotNext(all_probs, i, b, n, src) ==
    LET col == SetItemValue(<<b>>, src)
    IN  Tensor(all_probs.shape,
               [q \in 1..(b * n) |->
                   IF (q - 1) % n = (i + 1) % n THEN col[((q - 1) \div n) + 1]
                   ELSE all_probs.data[q]])

\* line 171: all_probs[:, i] = probs.exp()
WriteSlot(all_probs, i, b, n, src) ==
    LET col == SetItemValue(<<b>>, src)
    IN  Tensor(all_probs.shape,
               [q \in 1..(b * n) |->
                   IF (q - 1) % n = i THEN col[((q - 1) \div n) + 1]
                   ELSE all_probs.data[q]])

\* lines 174-177: state.unsqueeze(2).expand(-1, -1, k, -1).reshape(-1, b, d)
BranchState(state, k, b) ==
    Reshape(Expand(Unsqueeze(state, 2), <<-1, -1, k>>), <<b>>)

\* line 178: preds.view(-1, b)
BranchInd(preds, b) == Reshape(preds, <<b>>)

\* one iteration of the loop of lines 159-178, for i = fr.i
SpecStepFrame(m, heap, fr) ==
    LET i == fr.i
        k == fr.top_k[i + 1]
        z0 == Map1(LAMBDA e : Embedding(heap, m.emb[i + 1], e), fr.ind)
        z == Map1(LAMBDA x : Scale(m.emb_weight, x), z0)
        projected == Map1(LAMBDA x : Scale(m.state_weight, Linear(heap, m.proj[i + 1], x)),
                          fr.state)
        mixed == Map2(Add, projected, z)
        state == Map1(LAMBDA x : Gelu(LayerNormForward(heap, m.ln[i + 1], x)), mixed)
        probs == Map1(LAMBDA x : LogSoftmax(Logits(heap, m.head[i + 1], x)), state)
        preds == TopK(probs, k)
        dist == Map1(Exp, probs)
        ran == [fr EXCEPT !.evaluated = @ \o <<m.emb[i + 1], m.proj[i + 1],
                                                 m.ln[i + 1], m.head[i + 1]>>]
    IN  IF ~BroadcastOk(projected.shape, z.shape) THEN Raise(ran, "RuntimeError")
        ELSE IF k > m.vsize THEN Raise(ran, "RuntimeError")
        ELSE IF ~SetItemOk(<<fr.b>>, dist) THEN Raise(ran, "RuntimeError")
        ELSE [ran EXCEPT !.all_probs = WriteSlot(fr.all_probs, i, fr.b, m.n_predict, dist),
                         !.written = Append(@, i),
                         !.state = BranchState(state, k, fr.b),
                         !.ind = BranchInd(preds, fr.b),
                         !.counts = Append(@, BranchState(state, k, fr.b).shape[1]),
                         !.i = i + 1]

\* lines 180-181, then line 200
SpecReturnFrame(fr) ==
    [fr EXCEPT !.pc = "done", !.spec_result = [kind |-> "return", value |-> fr.all_probs],
               !.result = [kind |-> "return", logits |-> fr.logits,
                           speculative_logits |-> fr.all_probs]]

(* ------------------------------ inputs -------------------------------- *)
\* has_top_k: speculator_config carries a "top_k_tokens_per_head" entry, top_k
Cfg(n, tie, scale, has_top_k, top_k) ==
    [n_predict |-> n, tie_weights |-> tie, scale_input |-> scale,
     has_top_k |-> has_top_k, top_k |-> top_k]

\* the top-k lists a configuration or a client can supply
TopKLists == SeqsUpTo(1..MaxK, MaxN)

\* a batch of hidden states, one vector per row
Batch(rows, f) == Tensor(<<rows>>, [r \in 1..rows |-> [val |-> f[r], src |-> r - 1]])

SmallBatches == {Batch(rows, [r \in 1..rows |-> (seed + r) % Modulus]) : rows \in 1..MaxBatch, seed \in Vals}

\* the batches at the bypass threshold and just above it
LargeBatches == {Batch(rows, [r \in 1..rows |-> r % Modulus]) :
                    rows \in {Threshold, Threshold + 1}}

Batches == SmallBatches \cup LargeBatches

\* the batch of caller c when several calls run at once: no two callers share
\* one, and they differ in size
CallerBatch(c) ==
    LET rows == ((c - 1) % MaxBatch) + 1
    IN  Batch(rows, [r \in 1..rows |-> (c + r) % Modulus])

(* --------------------- MLPSpeculatorHead.load ------------------------- *)
\* lines 221-222: the LM head, then the wrapper around both
WithLMHead(heap) ==
    [heap |-> Append(heap, Layer("lm_head", 0, FALSE)),
     wrapper |-> [lm_head |-> Len(heap) + 1, mlp_speculator |-> "model"]]

\* load is called: config.speculator names the files, line 207-209
LoadBegin(paths, cont, cfg) ==
    /\ loadpc = "idle"
    /\ todo' = paths
    /\ content' = cont
    /\ config' = cfg
    /\ loadpc' = IF paths = <<>> THEN "construct" ELSE "scan"
    /\ UNCHANGED <<routing, scanned, objs, model, top_k_tokens_per_head, wrapper,
                   error, frames>>

\* lines 209-218 for the next file of model_paths
ScanFile ==
    /\ loadpc = "scan"
    /\ LET filename == PathJoin(Head(todo))
           r == ScanKeys(routing, content[filename], filename)
       IN  /\ routing' = r.routing
           /\ IF r.error # None
              THEN /\ error' = r.error
                   /\ loadpc' = "failed"
                   /\ UNCHANGED <<todo, scanned>>
              ELSE /\ todo' = Tail(todo)
                   /\ scanned' = Append(scanned, filename)
                   /\ loadpc' = IF Tail(todo) = <<>> THEN "construct" ELSE "scan"
                   /\ UNCHANGED error
    /\ UNCHANGED <<content, config, objs, model, top_k_tokens_per_head, wrapper, frames>>

\* line 220: MLPSpeculatorModel(config, "speculator", weights)
ConstructModel ==
    /\ loadpc = "construct"
    /\ LET r == NewModel(config, objs)
       IN  /\ objs' = r.heap
           /\ model' = r.model
           /\ top_k_tokens_per_head' = r.top_k
           /\ error' = r.error
           /\ loadpc' = IF r.error # None THEN "failed" ELSE "lm_head"
    /\ UNCHANGED <<routing, todo, scanned, content, config, wrapper, frames>>

\* lines 221-222
LoadLMHead ==
    /\ loadpc = "lm_head"
    /\ LET r == WithLMHead(objs)
       IN  /\ objs' = r.heap
           /\ wrapper' = r.wrapper
    /\ loadpc' = "done"
    /\ UNCHANGED <<routing, todo, scanned, content, config, model,
                   top_k_tokens_per_head, error, frames>>

(* ------------------------- forward calls ------------------------------ *)
Idle == \A c \in Callers : frames[c].pc = "idle"

\* A client changes model.top_k_tokens_per_head, the list line 135 created:
\* it replaces an entry, appends one or removes the last.  A call in flight
\* holds the list it read at line 142, so the change is taken between calls.
TopKSet(j, k) ==
    /\ wrapper # NoObj
    /\ Idle
    /\ j \in 1..Len(top_k_tokens_per_head)
    /\ top_k_tokens_per_head[j] # k
    /\ top_k_tokens_per_head' = [top_k_tokens_per_head EXCEPT ![j] = k]
    /\ UNCHANGED <<loadVars, frames>>

TopKAppend(k) ==
    /\ wrapper # NoObj
    /\ Idle
    /\ Len(top_k_tokens_per_head) < MaxN
    /\ top_k_tokens_per_head' = Append(top_k_tokens_per_head, k)
    /\ UNCHANGED <<loadVars, frames>>

TopKPop ==
    /\ wrapper # NoObj
    /\ Idle
    /\ top_k_tokens_per_head # <<>>
    /\ top_k_tokens_per_head' = SubSeq(top_k_tokens_per_head, 1,
                                       Len(top_k_tokens_per_head) - 1)
    /\ UNCHANGED <<loadVars, frames>>

\* MLPSpeculatorHead.forward is called, lines 193-199
HeadForward(c, input) ==
    /\ wrapper # NoObj
    /\ frames[c].pc = "idle"
    /\ frames' = [frames EXCEPT ![c] = HeadForwardFrame(objs, wrapper, input)]
    /\ UNCHANGED <<loadVars, top_k_tokens_per_head>>

\* MLPSpeculatorModel.forward is entered, lines 142-158
SpecEnter(c) ==
    /\ frames[c].pc = "call"
    /\ frames' = [frames EXCEPT ![c] =
                     SpecEnterFrame(model, objs, top_k_tokens_per_head, frames[c])]
    /\ UNCHANGED <<loadVars, top_k_tokens_per_head>>

\* an iteration that takes its top-k entry off the model's own list
SpecStepPop(c) ==
    /\ frames[c].pc = "loop"
    /\ frames[c].i < model.n_predict
    /\ frames' = [frames EXCEPT ![c] = SpecStepFrame(model, objs, frames[c])]
    /\ top_k_tokens_per_head' = IF top_k_tokens_per_head = <<>> THEN <<>>
                                ELSE Tail(top_k_tokens_per_head)
    /\ UNCHANGED loadVars

\* one iteration of the loop, lines 159-178
SpecStep(c) ==
    /\ frames[c].pc = "loop"
    /\ frames[c].i < model.n_predict
    /\ frames' = [frames EXCEPT ![c] = SpecStepFrame(model, objs, frames[c])]
    /\ UNCHANGED <<loadVars, top_k_tokens_per_head>>

\* the loop is over: lines 180-181, and line 200 of the wrapper
SpecReturn(c) ==
    /\ frames[c].pc = "loop"
    /\ frames[c].i = model.n_predict
    /\ frames' = [frames EXCEPT ![c] = SpecReturnFrame(frames[c])]
    /\ UNCHANGED <<loadVars, top_k_tokens_per_head>>

\* the caller has taken the result (or the exception) of its call
Release(c) ==
    /\ frames[c].pc = "done"
    /\ frames' = [frames EXCEPT ![c] = IdleFrame]
    /\ UNCHANGED <<loadVars, top_k_tokens_per_head>>

(* -------------------------- specifications ---------------------------- *)
NoFrames == [c \in Callers |-> IdleFrame]

BaseRoutings == [Names -> {None, BaseFile}]

\* before load: the base model's weights are routed, nothing is constructed
InitLoad ==
    /\ routing \in BaseRoutings
    /\ loadpc = "idle"
    /\ todo = <<>>
    /\ scanned = <<>>
    /\ content = [f \in SpecFiles |-> <<>>]
    /\ config = NoObj
    /\ objs = <<>>
    /\ model = NoObj
    /\ top_k_tokens_per_head = <<>>
    /\ wrapper = NoObj
    /\ error = None
    /\ frames = NoFrames

NextLoad ==
    \/ /\ loadpc = "idle"
       /\ \E paths \in SeqsUpTo(FNames, MaxPaths), cont \in [SpecFiles -> KeyLists],
             n \in 1..MaxN, tie \in BOOLEAN, scale \in BOOLEAN :
             LoadBegin(paths, cont, Cfg(n, tie, scale, FALSE, <<>>))
    \/ ScanFile
    \/ ConstructModel
    \/ LoadLMHead

SpecLoad == InitLoad /\ [][NextLoad]_vars

\* load with no speculator file to scan, about to construct the model from a
\* configuration that may carry a top-k list of its own
InitConstruct ==
    /\ routing = [k \in Names |-> BaseFile]
    /\ loadpc = "construct"
    /\ todo = <<>>
    /\ scanned = <<>>
    /\ content = [f \in SpecFiles |-> <<>>]
    /\ \E n \in 1..MaxN, tie \in BOOLEAN, scale \in BOOLEAN, l \in TopKLists :
          config = Cfg(n, tie, scale, TRUE, l)
    /\ objs = <<>>
    /\ model = NoObj
    /\ top_k_tokens_per_head = <<>>
    /\ wrapper = NoObj
    /\ error = None
    /\ frames = NoFrames

NextConstruct == ConstructModel \/ LoadLMHead

SpecConstruct == InitConstruct /\ [][NextConstruct]_vars

\* the state load leaves for configuration cfg
Loaded(cfg) ==
    LET r == NewModel(cfg, <<>>)
        w == WithLMHead(r.heap)
    IN  /\ routing = [k \in Names |-> BaseFile]
        /\ loadpc = "done"
        /\ todo = <<>>
        /\ scanned = <<>>
        /\ content = [f \in SpecFiles |-> <<>>]
        /\ config = cfg
        /\ objs = w.heap
        /\ model = r.model
        /\ top_k_tokens_per_head = r.top_k
        /\ wrapper = w.wrapper
        /\ error = None
        /\ frames = NoFrames

\* after a load that succeeded: a wrapper serving forward calls
Init == \E n \in 1..MaxN, tie \in BOOLEAN : Loaded(Cfg(n, tie, FALSE, FALSE, <<>>))

Next ==
    \/ \E j \in 1..MaxN, k \in 1..MaxK : TopKSet(j, k)
    \/ \E k \in 1..MaxK : TopKAppend(k)
    \/ TopKPop
    \/ \E input \in SmallBatches : HeadForward(1, input)
    \/ SpecEnter(1)
    \/ SpecStep(1)
    \/ SpecReturn(1)
    \/ Release(1)

Spec == Init /\ [][Next]_vars

\* the wrapper as load leaves it, on batches up to and beyond the threshold
NextWrapper ==
    \/ \E input \in Batches : HeadForward(1, input)
    \/ SpecEnter(1)
    \/ SpecStep(1)
    \/ SpecReturn(1)
    \/ Release(1)

SpecWrapper == Init /\ [][NextWrapper]_vars

\* several forward calls at once, each on its own batch
NextConc ==
    \E c \in Callers :
        \/ HeadForward(c, CallerBatch(c))
        \/ SpecEnter(c)
        \/ SpecStep(c)
        \/ SpecReturn(c)
        \/ Release(c)

SpecConc == Init /\ [][NextConc]_vars

(* ------------------------------ claims -------------------------------- *)
Called(fr) == fr.pc \in {"loop", "done"} /\ fr.spec_calls = 1

Range(f) == {f[j] : j \in DOMAIN f}

RECURSIVE PrefixProducts(_, _)
PrefixProducts(l, j) ==
    IF j = 0 THEN <<>>
    ELSE Append(PrefixProducts(l, j - 1), Prod(SubSeq(l, 1, j)))

\* MLPSpeculatorHead.forward run to its end with nothing else running
RECURSIVE RunLoop(_, _, _)
RunLoop(m, heap, fr) ==
    IF fr.pc # "loop" THEN fr
    ELSE IF fr.i = m.n_predict THEN SpecReturnFrame(fr)
    ELSE RunLoop(m, heap, SpecStepFrame(m, heap, fr))

RunAlone(m, heap, w, top_k, input) ==
    LET f0 == HeadForwardFrame(heap, w, input)
    IN  IF f0.pc = "done" THEN f0
        ELSE RunLoop(m, heap, SpecEnterFrame(m, heap, top_k, f0))

\* C1: MLPSpeculatorHead.forward always computes the base logits; with more
\* than 128 rows it returns (logits, None) and never calls the speculator;
\* with 128 rows or fewer it calls the speculator once, with its own input and
\* the argmax of the logits, and hands back (logits, what the speculator
\* returned), or the exception the speculator raised.
C1_Theorem ==
    \A c \in Callers :
        LET fr == frames[c]
        IN  fr.pc # "idle" =>
              /\ fr.logits = Map1(LAMBDA x : Logits(objs, wrapper.lm_head, x), fr.input)
              /\ IF fr.input.shape[1] > Threshold
                 THEN /\ fr.spec_calls = 0
                      /\ fr.pc = "done"
                      /\ fr.result = [kind |-> "return", logits |-> fr.logits,
                                      speculative_logits |-> NoObj]
                 ELSE /\ fr.spec_calls = 1
                      /\ fr.hidden_states = fr.input
                      /\ fr.input_ids = Map1(ArgMax, fr.logits)
                      /\ fr.pc = "done" =>
                            IF fr.spec_result.kind = "return"
                            THEN fr.result = [kind |-> "return", logits |-> fr.logits,
                                              speculative_logits |-> fr.spec_result.value]
                            ELSE fr.result = fr.spec_result

C1_Witness ==
    \E c \in Callers :
        /\ frames[c].pc = "done"
        /\ frames[c].input.shape[1] = Threshold
        /\ frames[c].result.kind = "return"
        /\ frames[c].result.speculative_logits # NoObj

\* C2: with a top-k list of length N whose entries fit the vocabulary and
\* with an entry > 1 before the last step, the speculator's forward call
\* completes, the candidate row count after step i is the product of
\* topK[0..i], and the result has one distribution per input row per head.
C2_Claim ==
    \A c \in Callers :
        LET fr == frames[c]
            n == model.n_predict
        IN  ( /\ fr.pc = "done"
              /\ fr.spec_calls = 1
              /\ Len(fr.top_k) = n
              /\ \A j \in 1..n : fr.top_k[j] <= VocabSize
              /\ \E j \in 1..(n - 1) : fr.top_k[j] > 1 )
            => /\ fr.result.kind = "return"
               /\ fr.counts = PrefixProducts(fr.top_k, n)
               /\ fr.result.speculative_logits.shape = <<fr.input.shape[1], n>>

\* C5: a forward call of the speculator that finds a top-k list whose length
\* is not N raises, returns no probabilities, and has evaluated no head's
\* embedding, projection, normalizer or output projection.
C5_Theorem ==
    \A c \in Callers :
        LET fr == frames[c]
        IN  (Called(fr) /\ Len(fr.top_k) # model.n_predict)
            => /\ fr.pc = "done"
               /\ fr.spec_result.kind = "raise"
               /\ fr.result.kind = "raise"
               /\ fr.evaluated = <<>>
               /\ fr.written = <<>>

C5_Witness ==
    \E c \in Callers :
        /\ frames[c].pc = "done"
        /\ frames[c].spec_calls = 1
        /\ Len(frames[c].top_k) > model.n_predict
        /\ frames[c].result = [kind |-> "raise", error |-> "AssertionError"]

\* C7: with the top-k list of all ones, after every step the candidate count
\* is 1, the batch axis of state, candidate ids and recorded distributions is
\* the input batch, heads 0, 1, ... have each written their own slot once, in
\* that order, and the call returns probabilities of shape (batch, N).
C7_Theorem ==
    \A c \in Callers :
        LET fr == frames[c]
            n == model.n_predict
            b == fr.input.shape[1]
        IN  (Called(fr) /\ fr.top_k = Ones(n))
            => /\ fr.counts = Ones(fr.i)
               /\ fr.written = [j \in 1..fr.i |-> j - 1]
               /\ fr.state.shape = IF fr.i = 0 THEN <<b>> ELSE <<1, b>>
               /\ fr.ind.shape = <<1, b>>
               /\ fr.all_probs.shape = <<b, n>>
               /\ \A r \in 0..(b - 1), j \in 0..(n - 1) :
                     LET slot == fr.all_probs.data[r * n + j + 1]
                     IN  IF j < fr.i
                         THEN slot # Empty /\ slot.src = r /\ Len(slot.p) = VocabSize
                         ELSE slot = Empty
               /\ fr.pc = "done" =>
                     /\ fr.i = n
                     /\ fr.result = [kind |-> "return", logits |-> fr.logits,
                                     speculative_logits |-> fr.all_probs]

C7_Witness ==
    \E c \in Callers :
        /\ frames[c].pc = "done"
        /\ frames[c].spec_calls = 1
        /\ model.n_predict >= 2
        /\ frames[c].input.shape[1] >= 2
        /\ frames[c].top_k = Ones(model.n_predict)
        /\ frames[c].result.kind = "return"

\* C9: after the branch that ends a step, position (r, c) of the expanded
\* state holds a copy of the state of input row c and position (r, c) of the
\* candidate ids holds a token selected from the distribution of input row c.
C9_Claim ==
    \A c \in Callers :
        LET fr == frames[c]
        IN  (Called(fr) /\ fr.i >= 1)
            => /\ fr.state.shape = fr.ind.shape
               /\ Len(fr.state.shape) = 2
               /\ fr.state.shape[2] = fr.b
               /\ \A q \in 1..Len(fr.state.data) :
                     /\ fr.state.data[q].src = (q - 1) % fr.b
                     /\ fr.ind.data[q].src = (q - 1) % fr.b

\* C8: a step of a forward call leaves the layer objects, the model, its
\* top-k list and the wrapper as they were, and a call that ends, whatever
\* the other calls did meanwhile, ends with the result the same call has
\* when it runs alone.
C8_Theorem ==
    [][ /\ UNCHANGED <<objs, model, top_k_tokens_per_head, wrapper>>
        /\ \A c \in Callers :
              (frames'[c] # frames[c] /\ frames'[c].pc = "done") =>
                  frames'[c].result =
                      RunAlone(model, objs, wrapper, top_k_tokens_per_head,
                               frames'[c].input).result ]_vars

C8_Witness ==
    /\ frames[1].pc = "done"
    /\ frames[1].result.kind = "return"
    /\ frames[1].result.speculative_logits # NoObj
    /\ frames[2].pc = "loop"
    /\ frames[2].i >= 1
    /\ frames[2].input # frames[1].input

\* C10: the scan of a speculator file raises exactly when one of its keys is
\* routed to another file already; load then ends with no model and no
\* wrapper; as long as no scan has raised, every key of every file scanned is
\* routed to that file.
C10_Theorem ==
    [][ ScanFile =>
          LET filename == PathJoin(Head(todo))
              keys == content[filename]
              clash == \E j \in 1..Len(keys) :
                           routing[keys[j]] # None /\ routing[keys[j]] # filename
          IN  /\ (error' = "RuntimeError") <=> clash
              /\ clash => loadpc' = "failed" /\ model' = NoObj /\ wrapper' = NoObj
              /\ ~clash => \A j \in 1..Len(scanned') :
                              \A q \in 1..Len(content[scanned'[j]]) :
                                  routing'[content[scanned'[j]][q]] = scanned'[j] ]_vars

C10_Witness ==
    /\ loadpc = "failed"
    /\ error = "RuntimeError"
    /\ Len(scanned) >= 1
    /\ \E j \in 1..Len(content[PathJoin(Head(todo))]) :
          routing[content[PathJoin(Head(todo))][j]] = scanned[1]

\* C6: with tie_weights and N >= 2 heads, head 0 has a state-projection of
\* its own, heads 1..N-1 share another, and all heads share one embedding,
\* one output-projection and one normalizer; without tie_weights each head
\* has its own object of each of the four kinds.
C6_Theorem ==
    (model # NoObj /\ model.n_predict >= 2) =>
        LET n == model.n_predict
        IN  IF model.tie_weights
            THEN /\ model.proj[1] # model.proj[2]
                 /\ \A j \in 2..n : model.proj[j] = model.proj[2]
                 /\ Cardinality(Range(model.proj)) = 2
                 /\ Cardinality(Range(model.emb)) = 1
                 /\ Cardinality(Range(model.head)) = 1
                 /\ Cardinality(Range(model.ln)) = 1
            ELSE /\ Cardinality(Range(model.proj)) = n
                 /\ Cardinality(Range(model.emb)) = n
                 /\ Cardinality(Range(model.head)) = n
                 /\ Cardinality(Range(model.ln)) = n

C6_Witness ==
    /\ model # NoObj
    /\ model.tie_weights
    /\ model.n_predict = 3
    /\ Cardinality(Range(model.proj)) = 2

Constructed == loadpc \in {"lm_head", "done", "failed"}

\* C3: construction with scale_input succeeds and yields one more normalizer,
\* without affine parameters.
C3_Claim ==
    (Constructed /\ config.scale_input) =>
        /\ model # NoObj
        /\ model.ln0 # 0
        /\ ~objs[model.ln0].affine

====
